---- MODULE Spec2Model ----
(***************************************************************************)
(* A model of main.py of paperless-asn-list: one run of the script fetches *)
(* the labels of a custom field, the correspondents and the documents of   *)
(* an ASN range from the Paperless-ngx REST API, groups the documents by   *)
(* the custom field (the storage box) and writes three kinds of report.    *)
(*                                                                         *)
(* Strings that the program compares or lowercases (correspondent names,   *)
(* labels, dates) are sequences of code points, so that str.lower and the  *)
(* ordering of str are computed and not assumed.  Strings that are only    *)
(* copied (titles, printed lines) are TLA+ strings.                        *)
(*                                                                         *)
(* A Python dict that the program iterates (the grouped documents) is a    *)
(* sequence of [key, docs] entries in insertion order; a dict that is only *)
(* looked up (the two id -> name maps) is a function.                      *)
(***************************************************************************)
EXTENDS Integers, Sequences, FiniteSets, TLC

VARIABLES
    pc,                          \* the statement of __main__ that runs next
    asn_from, asn_to,            \* args.asn_from, args.asn_to
    custom_field_id,             \* args.custom_field_id
    storage_box_label_mapping,   \* result of fetch_custom_field_labels
    correspondents_map,          \* fetch_correspondents: the map built so far / returned
    documents,                   \* fetch_documents: the list built so far / returned
    next_url,                    \* the loop variable of the running fetch
    primary_grouped_docs,        \* result of group_documents_by_custom_field
    files,                       \* the report files written, in order
    printed,                     \* the lines printed, in order
    requests,                    \* history: the GET requests sent, in order
    pages                        \* history: the page responses the running fetch received

vars == <<pc, asn_from, asn_to, custom_field_id, storage_box_label_mapping,
          correspondents_map, documents, next_url, primary_grouped_docs,
          files, printed, requests, pages>>

-----------------------------------------------------------------------------
(* Bounds of the model. *)

\* the longest chain of pages the server serves for one collection
MaxPages == 2
\* the largest number of documents drawn directly as the fetched list (SpecReports)
MaxDocs == 2

-----------------------------------------------------------------------------
(* Program constants. *)

DefaultAsnFrom == 1
DefaultAsnTo == 9999
DefaultCustomFieldId == 3
HttpOk == 200

-----------------------------------------------------------------------------
(* Strings as sequences of code points. *)

\* the literal "Unknown"
Unknown == <<85, 110, 107, 110, 111, 119, 110>>

\* str.lower on the ASCII letters
lower(s) == [i \in DOMAIN s |-> IF s[i] >= 65 /\ s[i] <= 90 THEN s[i] + 32 ELSE s[i]]

\* a < b for two str: lexicographic on the code points, a proper prefix first
StrLess(a, b) ==
    \E k \in 1..Len(b) :
        /\ k - 1 <= Len(a)
        /\ \A i \in 1..(k - 1) : a[i] = b[i]
        /\ \/ k = Len(a) + 1
           \/ k <= Len(a) /\ a[k] < b[k]

StrLeq(a, b) == a = b \/ StrLess(a, b)

\* the decimal digits of a non-negative int, as str(n) writes them
RECURSIVE str(_)
str(n) == IF n < 10 THEN <<48 + n>> ELSE Append(str(n \div 10), 48 + (n % 10))

\* int(x) of a value that already is an int
int(x) == x

-----------------------------------------------------------------------------
(* list.sort / sorted: a stable sort by a key.  less[i][j] says that the    *)
(* key of s[i] is less than the key of s[j]; elements with equal keys keep  *)
(* their order.                                                             *)

StableSort(s, less) ==
    LET n == Len(s)
        before(j, i) == less[j][i] \/ (~less[i][j] /\ j < i)
        pos(i) == 1 + Cardinality({j \in 1..n : j # i /\ before(j, i)})
    IN  [p \in 1..n |-> s[CHOOSE i \in 1..n : pos(i) = p]]

\* dict.get(k, default)
dict_get(m, k, default) == IF k \in DOMAIN m THEN m[k] ELSE default

Min(S) == CHOOSE x \in S : \A y \in S : x <= y
Max(S) == CHOOSE x \in S : \A y \in S : x >= y

RECURSIVE Concat(_)
Concat(ss) == IF ss = <<>> THEN <<>> ELSE Head(ss) \o Concat(Tail(ss))

SeqsUpTo(S, n) == UNION {[1..k -> S] : k \in 0..n}

-----------------------------------------------------------------------------
(* fetch_custom_field_labels: the dict comprehension over select_options.   *)
(* A later option with the same id replaces an earlier one.                 *)

RECURSIVE labels_of(_)
labels_of(select_options) ==
    IF select_options = <<>> THEN <<>>
    ELSE LET n == Len(select_options)
             option == select_options[n]
         IN  (option.id :> option.label) @@ labels_of(SubSeq(select_options, 1, n - 1))

\* fetch_correspondents: correspondents_map[correspondent["id"]] = correspondent["name"]
\* for every record of one page, in order
RECURSIVE add_correspondents(_, _)
add_correspondents(map, results) ==
    IF results = <<>> THEN map
    ELSE LET n == Len(results)
             correspondent == results[n]
         IN  (correspondent.id :> correspondent.name)
                 @@ add_correspondents(map, SubSeq(results, 1, n - 1))

\* `if response.status_code != 200: raise Exception(...)` of the three fetches
fetch_custom_field_labels_failed(response) == response.status # HttpOk

fetch_correspondents_failed(response) == response.status # HttpOk

\* fetch_documents without the check of the status
fetch_documents_accepts_any_status(response) == FALSE

fetch_documents_failed(response) == response.status # HttpOk

\* `documents = content["results"]` in place of extend: only the last page is kept
extend_keeps_last_page(list, results) == results

\* documents.extend(content["results"])
extend(list, results) == list \o results

\* `while next_url:` a URL is a non-empty string; None and "" end the loop
Truthy(next) == next.kind = "url"

-----------------------------------------------------------------------------
(* Grouping. *)

\* `grouped_documents[key] = [document]` for an old key too: the entry is
\* replaced, not appended to
dict_append_replaces(grouped, key, document) ==
    IF \E i \in 1..Len(grouped) : grouped[i].key = key
    THEN LET i == CHOOSE j \in 1..Len(grouped) : grouped[j].key = key
         IN  [grouped EXCEPT ![i].docs = <<document>>]
    ELSE Append(grouped, [key |-> key, docs |-> <<document>>])

\* grouped_documents[key].append(document), creating the entry when the key is new
dict_append(grouped, key, document) ==
    IF \E i \in 1..Len(grouped) : grouped[i].key = key
    THEN LET i == CHOOSE j \in 1..Len(grouped) : grouped[j].key = key
         IN  [grouped EXCEPT ![i].docs = Append(@, document)]
    ELSE Append(grouped, [key |-> key, docs |-> <<document>>])

\* the inner loop without its `break`: the last assignment of the field wins
group_key_last_assignment(document, field_id, label_mapping) ==
    LET custom_fields == document.custom_fields
        matching == {i \in 1..Len(custom_fields) : custom_fields[i].field = field_id}
    IN  IF matching = {} THEN Unknown
        ELSE dict_get(label_mapping, custom_fields[Max(matching)].value, Unknown)

\* the inner loop of group_documents_by_custom_field: the label of the first
\* assignment of the field, "Unknown" when there is none or its value has no label
group_key(document, field_id, label_mapping) ==
    LET custom_fields == document.custom_fields
        matching == {i \in 1..Len(custom_fields) : custom_fields[i].field = field_id}
    IN  IF matching = {} THEN Unknown
        ELSE dict_get(label_mapping, custom_fields[Min(matching)].value, Unknown)

RECURSIVE group_documents_by_custom_field(_, _, _)
group_documents_by_custom_field(docs, field_id, label_mapping) ==
    IF docs = <<>> THEN <<>>
    ELSE LET n == Len(docs)
         IN  dict_append(
                 group_documents_by_custom_field(SubSeq(docs, 1, n - 1), field_id, label_mapping),
                 group_key(docs[n], field_id, label_mapping),
                 docs[n])

\* correspondents.get(doc["correspondent"], "Unknown")
corr_name_of(document, correspondents) ==
    dict_get(correspondents, document.correspondent, Unknown)

\* group_within_custom_field
RECURSIVE group_within_custom_field(_, _, _)
group_within_custom_field(docs, correspondents, group_by) ==
    IF docs = <<>> THEN <<>>
    ELSE LET n == Len(docs)
             document == docs[n]
             key == CASE group_by = "Correspondent" -> corr_name_of(document, correspondents)
                      [] group_by = "ASN" -> str(document.archive_serial_number)
         IN  dict_append(
                 group_within_custom_field(SubSeq(docs, 1, n - 1), correspondents, group_by),
                 key, document)

\* the "Group by correspondent" loop of the two by-correspondent exports
RECURSIVE correspondent_groups(_, _)
correspondent_groups(docs, correspondents) ==
    IF docs = <<>> THEN <<>>
    ELSE LET n == Len(docs)
         IN  dict_append(correspondent_groups(SubSeq(docs, 1, n - 1), correspondents),
                         corr_name_of(docs[n], correspondents), docs[n])

-----------------------------------------------------------------------------
(* Sorting as the exports do it. *)

\* sorted(d.keys()) without the key: upper case before lower case
sorted_by_key_case_sensitive(grouped) ==
    StableSort(grouped, [i \in 1..Len(grouped) |-> [j \in 1..Len(grouped) |->
                            StrLess(grouped[i].key, grouped[j].key)]])

\* sorted(d.keys(), key=lambda x: x.lower()), as the entries in that order
sorted_by_lower_key(grouped) ==
    StableSort(grouped, [i \in 1..Len(grouped) |-> [j \in 1..Len(grouped) |->
                            StrLess(lower(grouped[i].key), lower(grouped[j].key))]])

\* docs.sort(key=lambda doc: doc["created_date"])
sort_by_created_date(docs) ==
    StableSort(docs, [i \in 1..Len(docs) |-> [j \in 1..Len(docs) |->
                         StrLess(docs[i].created_date, docs[j].created_date)]])

\* docs.sort(key=lambda doc: str(doc["archive_serial_number"])): "10" before "2"
sort_by_asn_as_string(docs) ==
    StableSort(docs, [i \in 1..Len(docs) |-> [j \in 1..Len(docs) |->
                         StrLess(str(docs[i].archive_serial_number),
                                 str(docs[j].archive_serial_number))]])

\* the by-ASN export without its docs.sort
sort_by_asn_missing(docs) == docs

\* docs.sort(key=lambda doc: int(doc["archive_serial_number"]))
sort_by_asn(docs) ==
    StableSort(docs, [i \in 1..Len(docs) |-> [j \in 1..Len(docs) |->
                         int(docs[i].archive_serial_number) < int(docs[j].archive_serial_number)]])

\* the documents of the by-correspondent reports in the order their rows are
\* written, each with the correspondent name of its group
by_correspondent(docs, correspondents) ==
    LET groups == sorted_by_lower_key(correspondent_groups(docs, correspondents))
    IN  Concat([g \in 1..Len(groups) |->
                  LET sorted == sort_by_created_date(groups[g].docs)
                  IN  [i \in 1..Len(sorted) |->
                         [corr_name |-> groups[g].key, doc |-> sorted[i]]]])

asn_values(docs) == {int(docs[i].archive_serial_number) : i \in 1..Len(docs)}

-----------------------------------------------------------------------------
(* The three exports, as the files they write.  The name of a file is the  *)
(* record of its parts that depend on the documents; the timestamp prefix   *)
(* (datetime.now) is left out.                                              *)

\* doc['storage_box'] = group_key
with_storage_box(document, key) == ("storage_box" :> key) @@ document

\* export_correspondents_list: every document of every group, in the order of
\* the groups, each with its group's key
all_docs_of(grouped) ==
    Concat([g \in 1..Len(grouped) |->
              [i \in 1..Len(grouped[g].docs) |->
                 with_storage_box(grouped[g].docs[i], grouped[g].key)]])

\* the grouped documents after export_correspondents_list has set storage_box
\* on each of them (the documents are the same objects)
mark_storage_box(grouped) ==
    [g \in 1..Len(grouped) |->
       [key |-> grouped[g].key,
        docs |-> [i \in 1..Len(grouped[g].docs) |->
                    with_storage_box(grouped[g].docs[i], grouped[g].key)]]]

\* export_correspondents_list naming its file after the requested range
export_correspondents_list_requested_bounds(grouped, correspondents, from, to) ==
    LET all_docs == all_docs_of(grouped)
        ordered == by_correspondent(all_docs, correspondents)
    IN  [filename |-> [storage_box |-> <<>>, grouped_by |-> "Correspondent",
                       min_asn |-> from, max_asn |-> to],
         header |-> <<"Correspondent", "Date", "Title", "StorageBox", "ASN">>,
         rows |-> [i \in 1..Len(ordered) |->
                     <<ordered[i].corr_name, ordered[i].doc.created_date,
                       ordered[i].doc.title, ordered[i].doc.storage_box,
                       ordered[i].doc.archive_serial_number>>]]

\* export_correspondents_list falling back to the default range, not the
\* requested one, when there is no document
export_correspondents_list_default_bounds(grouped, correspondents, from, to) ==
    LET all_docs == all_docs_of(grouped)
        values == asn_values(all_docs)
        ordered == by_correspondent(all_docs, correspondents)
    IN  [filename |-> [storage_box |-> <<>>, grouped_by |-> "Correspondent",
                       min_asn |-> IF values # {} THEN Min(values) ELSE DefaultAsnFrom,
                       max_asn |-> IF values # {} THEN Max(values) ELSE DefaultAsnTo],
         header |-> <<"Correspondent", "Date", "Title", "StorageBox", "ASN">>,
         rows |-> [i \in 1..Len(ordered) |->
                     <<ordered[i].corr_name, ordered[i].doc.created_date,
                       ordered[i].doc.title, ordered[i].doc.storage_box,
                       ordered[i].doc.archive_serial_number>>]]

export_correspondents_list(grouped, correspondents, from, to) ==
    LET all_docs == all_docs_of(grouped)
        values == asn_values(all_docs)
        actual_min_asn == IF values # {} THEN Min(values) ELSE from
        actual_max_asn == IF values # {} THEN Max(values) ELSE to
        ordered == by_correspondent(all_docs, correspondents)
    IN  [filename |-> [storage_box |-> <<>>, grouped_by |-> "Correspondent",
                       min_asn |-> actual_min_asn, max_asn |-> actual_max_asn],
         header |-> <<"Correspondent", "Date", "Title", "StorageBox", "ASN">>,
         rows |-> [i \in 1..Len(ordered) |->
                     <<ordered[i].corr_name, ordered[i].doc.created_date,
                       ordered[i].doc.title, ordered[i].doc.storage_box,
                       ordered[i].doc.archive_serial_number>>]]

\* the file export_storage_box_by_correspondent writes for one storage box
box_by_correspondent_file(storage_box, docs, correspondents) ==
    LET min_asn == Min(asn_values(docs))
        max_asn == Max(asn_values(docs))
        ordered == by_correspondent(docs, correspondents)
    IN  [filename |-> [storage_box |-> <<storage_box>>, grouped_by |-> "Correspondent",
                       min_asn |-> min_asn, max_asn |-> max_asn],
         header |-> <<"StorageBox", "Correspondent", "Date", "Title", "ASN">>,
         rows |-> [i \in 1..Len(ordered) |->
                     <<storage_box, ordered[i].corr_name, ordered[i].doc.created_date,
                       ordered[i].doc.title, ordered[i].doc.archive_serial_number>>]]

export_storage_box_by_correspondent(grouped, correspondents) ==
    LET boxes == sorted_by_lower_key(grouped)
    IN  [b \in 1..Len(boxes) |->
           box_by_correspondent_file(boxes[b].key, boxes[b].docs, correspondents)]

\* the file export_storage_box_by_asn writes for one storage box
box_by_asn_file(storage_box, docs, correspondents) ==
    LET min_asn == Min(asn_values(docs))
        max_asn == Max(asn_values(docs))
        sorted == sort_by_asn(docs)
    IN  [filename |-> [storage_box |-> <<storage_box>>, grouped_by |-> "ASN",
                       min_asn |-> min_asn, max_asn |-> max_asn],
         header |-> <<"StorageBox", "ASN", "Correspondent", "Title", "Date">>,
         rows |-> [i \in 1..Len(sorted) |->
                     <<storage_box, sorted[i].archive_serial_number,
                       corr_name_of(sorted[i], correspondents),
                       sorted[i].title, sorted[i].created_date>>]]

export_storage_box_by_asn(grouped, correspondents) ==
    LET boxes == sorted_by_lower_key(grouped)
    IN  [b \in 1..Len(boxes) |->
           box_by_asn_file(boxes[b].key, boxes[b].docs, correspondents)]

\* the grouped documents after export_storage_box_by_asn: docs.sort sorts the
\* list of each group in place
sort_groups_by_asn(grouped) ==
    [g \in 1..Len(grouped) |->
       [key |-> grouped[g].key, docs |-> sort_by_asn(grouped[g].docs)]]

-----------------------------------------------------------------------------
(* What the server can answer, and the arguments of a run. *)

NameA == <<65>>          \* "A"
NameLowerA == <<97>>     \* "a"
NameB == <<66>>          \* "B"
Date01 == <<48, 49>>     \* "01"
Date02 == <<48, 50>>     \* "02"

OtherFieldId == DefaultCustomFieldId + 1

AsnRanges == {<<DefaultAsnFrom, DefaultAsnTo>>, <<5, 8>>}

SelectOptionLists ==
    { <<>>,
      <<[id |-> 1, label |-> NameA]>>,
      <<[id |-> 1, label |-> NameA], [id |-> 2, label |-> NameLowerA]>> }

CorrespondentRecords ==
    { [id |-> 1, name |-> NameA], [id |-> 2, name |-> NameLowerA], [id |-> 2, name |-> NameB] }

CustomFieldLists ==
    { <<>>,
      <<[field |-> OtherFieldId, value |-> 1],
        [field |-> DefaultCustomFieldId, value |-> 2],
        [field |-> DefaultCustomFieldId, value |-> 1]>> }

\* the documents a fetched list is drawn from in SpecReports
Documents ==
    [archive_serial_number : {2, 10}, correspondent : {1, 2},
     created_date : {Date01, Date02}, title : {"T"}, custom_fields : CustomFieldLists]

\* the documents the server serves in Spec; correspondent 0 stands for null
ServedDocuments ==
    { [archive_serial_number |-> 10, correspondent |-> 1, created_date |-> Date02,
       title |-> "T", custom_fields |-> <<[field |-> DefaultCustomFieldId, value |-> 1]>>],
      [archive_serial_number |-> 2, correspondent |-> 2, created_date |-> Date01,
       title |-> "T", custom_fields |-> <<[field |-> DefaultCustomFieldId, value |-> 1]>>],
      [archive_serial_number |-> 7, correspondent |-> 0, created_date |-> Date01,
       title |-> "T", custom_fields |-> <<>>] }

NoUrl(kind) == [kind |-> kind, page |-> 0]
PageUrl(p) == [kind |-> "url", page |-> p]

\* the values of "next" the server can send with page p: a URL of the next
\* page while the chain may grow, null, the empty string, or no "next" key
NextValues(p) ==
    {NoUrl("null"), NoUrl("empty"), NoUrl("absent")}
        \cup (IF p < MaxPages THEN {PageUrl(p + 1)} ELSE {})

\* the responses to the request of page p of a collection
PageResponses(records, p) ==
    {[status |-> 500, results |-> <<>>, next |-> NoUrl("null")]}
        \cup {[status |-> HttpOk, results |-> r, next |-> n] :
                 r \in SeqsUpTo(records, 1), n \in NextValues(p)}

LabelResponses ==
    {[status |-> 500, select_options |-> <<>>]}
        \cup {[status |-> HttpOk, select_options |-> o] : o \in SelectOptionLists}

-----------------------------------------------------------------------------
(* The run: __main__. *)

\* __main__ starting with the correspondents, the labels never fetched
FirstStatementCorrespondents == "fetch_correspondents"

\* the first statement of the try block of __main__
FirstStatement == "fetch_custom_field_labels"

Init ==
    /\ pc = FirstStatement
    /\ \E r \in AsnRanges : asn_from = r[1] /\ asn_to = r[2]
    /\ custom_field_id = DefaultCustomFieldId
    /\ storage_box_label_mapping = <<>>
    /\ correspondents_map = <<>>
    /\ documents = <<>>
    /\ next_url = PageUrl(1)       \* a fetch starts its loop at the URL of its collection
    /\ primary_grouped_docs = <<>>
    /\ files = <<>>
    /\ printed = <<>>
    /\ requests = <<>>
    /\ pages = <<>>

\* `except Exception as e: print(f"Error: {e}")`, after which the script ends
Abort ==
    /\ pc' = "aborted"
    /\ printed' = Append(printed, "Error")

\* storage_box_label_mapping = fetch_custom_field_labels(args.custom_field_id)
FetchCustomFieldLabels ==
    /\ pc = "fetch_custom_field_labels"
    /\ \E response \in LabelResponses :
        /\ requests' = Append(requests, [resource |-> "custom_fields", page |-> 1,
                                       status |-> response.status])
        /\ IF fetch_custom_field_labels_failed(response)
           THEN /\ Abort
                /\ UNCHANGED <<storage_box_label_mapping, next_url>>
           ELSE /\ storage_box_label_mapping' = labels_of(response.select_options)
                /\ pc' = "fetch_correspondents"
                /\ next_url' = PageUrl(1)
                /\ UNCHANGED printed
    /\ UNCHANGED <<asn_from, asn_to, custom_field_id, correspondents_map, documents,
                   primary_grouped_docs, files, pages>>

\* one iteration of the loop of fetch_correspondents; the last one returns
\* to __main__, which calls fetch_documents
FetchCorrespondentsPage ==
    /\ pc = "fetch_correspondents"
    /\ Truthy(next_url)
    /\ \E response \in PageResponses(CorrespondentRecords, next_url.page) :
        /\ requests' = Append(requests, [resource |-> "correspondents", page |-> next_url.page,
                                       status |-> response.status])
        /\ pages' = Append(IF next_url.page = 1 THEN <<>> ELSE pages, response)
        /\ IF fetch_correspondents_failed(response)
           THEN /\ Abort
                /\ UNCHANGED <<correspondents_map, next_url>>
           ELSE /\ correspondents_map' = add_correspondents(correspondents_map, response.results)
                /\ IF response.next.kind = "absent"
                   THEN /\ Abort
                        /\ UNCHANGED next_url
                   ELSE /\ UNCHANGED printed
                        /\ IF Truthy(response.next)
                           THEN /\ next_url' = response.next
                                /\ UNCHANGED pc
                           ELSE /\ next_url' = PageUrl(1)
                                /\ pc' = "fetch_documents"
    /\ UNCHANGED <<asn_from, asn_to, custom_field_id, storage_box_label_mapping, documents,
                   primary_grouped_docs, files>>

\* one iteration of the loop of fetch_documents; the last one returns to __main__
FetchDocumentsPage ==
    /\ pc = "fetch_documents"
    /\ Truthy(next_url)
    /\ \E response \in PageResponses(ServedDocuments, next_url.page) :
        /\ requests' = Append(requests, [resource |-> "documents", page |-> next_url.page,
                                       status |-> response.status])
        /\ pages' = Append(IF next_url.page = 1 THEN <<>> ELSE pages, response)
        /\ IF fetch_documents_failed(response)
           THEN /\ Abort
                /\ UNCHANGED <<documents, next_url>>
           ELSE /\ documents' = extend(documents, response.results)
                /\ IF response.next.kind = "absent"
                   THEN /\ Abort
                        /\ UNCHANGED next_url
                   ELSE /\ UNCHANGED printed
                        /\ next_url' = response.next
                        /\ pc' = IF Truthy(response.next) THEN pc ELSE "group"
    /\ UNCHANGED <<asn_from, asn_to, custom_field_id, storage_box_label_mapping,
                   correspondents_map, primary_grouped_docs, files>>

\* primary_grouped_docs = group_documents_by_custom_field(...)
Group ==
    /\ pc = "group"
    /\ primary_grouped_docs' =
           group_documents_by_custom_field(documents, custom_field_id, storage_box_label_mapping)
    /\ pc' = "export_correspondents_list"
    /\ UNCHANGED <<asn_from, asn_to, custom_field_id, storage_box_label_mapping,
                   correspondents_map, documents, next_url, files, printed, requests, pages>>

ExportCorrespondentsList ==
    /\ pc = "export_correspondents_list"
    /\ files' = Append(files, export_correspondents_list(primary_grouped_docs,
                                  correspondents_map, asn_from, asn_to))
    /\ printed' = Append(printed, "Correspondents list exported")
    /\ primary_grouped_docs' = mark_storage_box(primary_grouped_docs)
    /\ documents' = [i \in 1..Len(documents) |->
                       with_storage_box(documents[i],
                           group_key(documents[i], custom_field_id, storage_box_label_mapping))]
    /\ pc' = "export_storage_box_by_correspondent"
    /\ UNCHANGED <<asn_from, asn_to, custom_field_id, storage_box_label_mapping,
                   correspondents_map, next_url, requests, pages>>

ExportStorageBoxByCorrespondent ==
    /\ pc = "export_storage_box_by_correspondent"
    /\ LET written == export_storage_box_by_correspondent(primary_grouped_docs, correspondents_map)
       IN  /\ files' = files \o written
           /\ printed' = printed \o [i \in 1..Len(written) |->
                                       "Storage box list (by correspondent) exported"]
    /\ pc' = "export_storage_box_by_asn"
    /\ UNCHANGED <<asn_from, asn_to, custom_field_id, storage_box_label_mapping,
                   correspondents_map, documents, next_url, primary_grouped_docs,
                   requests, pages>>

ExportStorageBoxByAsn ==
    /\ pc = "export_storage_box_by_asn"
    /\ LET written == export_storage_box_by_asn(primary_grouped_docs, correspondents_map)
       IN  /\ files' = files \o written
           /\ printed' = printed \o [i \in 1..Len(written) |->
                                       "Storage box list (by ASN) exported"]
    /\ primary_grouped_docs' = sort_groups_by_asn(primary_grouped_docs)
    /\ pc' = "done"
    /\ UNCHANGED <<asn_from, asn_to, custom_field_id, storage_box_label_mapping,
                   correspondents_map, documents, next_url, requests, pages>>

Next ==
    \/ FetchCustomFieldLabels
    \/ FetchCorrespondentsPage
    \/ FetchDocumentsPage
    \/ Group
    \/ ExportCorrespondentsList
    \/ ExportStorageBoxByCorrespondent
    \/ ExportStorageBoxByAsn

Spec == Init /\ [][Next]_vars

-----------------------------------------------------------------------------
(* The run from the point where the three fetches have returned: the state  *)
(* of __main__ before group_documents_by_custom_field, for every list of up *)
(* to MaxDocs documents, two label mappings and two correspondent maps      *)
(* (each fetched in one page).                                              *)

LabelMappings == {labels_of(o) : o \in SelectOptionLists \ {<<>>}}

CorrespondentMaps ==
    { add_correspondents(<<>>, rs) :
        rs \in { <<[id |-> 2, name |-> NameLowerA]>>,
                 <<[id |-> 1, name |-> NameA], [id |-> 2, name |-> NameLowerA]>> } }

InitReports ==
    /\ pc = "group"
    /\ asn_from = DefaultAsnFrom
    /\ asn_to = DefaultAsnTo
    /\ custom_field_id = DefaultCustomFieldId
    /\ storage_box_label_mapping \in LabelMappings
    /\ correspondents_map \in CorrespondentMaps
    /\ documents \in SeqsUpTo(Documents, MaxDocs)
    /\ next_url = NoUrl("null")
    /\ primary_grouped_docs = <<>>
    /\ files = <<>>
    /\ printed = <<>>
    /\ requests = <<[resource |-> "custom_fields", page |-> 1, status |-> HttpOk],
                    [resource |-> "correspondents", page |-> 1, status |-> HttpOk],
                    [resource |-> "documents", page |-> 1, status |-> HttpOk]>>
    /\ pages = <<[status |-> HttpOk, results |-> documents, next |-> NoUrl("null")]>>

NextReports ==
    \/ Group
    \/ ExportCorrespondentsList
    \/ ExportStorageBoxByCorrespondent
    \/ ExportStorageBoxByAsn

SpecReports == InitReports /\ [][NextReports]_vars

-----------------------------------------------------------------------------
(* Properties of the fetches (checked under Spec). *)

Last(s) == s[Len(s)]

ExportStatements ==
    {"export_correspondents_list", "export_storage_box_by_correspondent",
     "export_storage_box_by_asn", "done"}

FailedRequests == {i \in 1..Len(requests) : requests[i].status # HttpOk}

\* C1: once a request of any fetch step was answered with a status other
\* than 200, the run is aborted: that request is the last one sent, no
\* grouping or export is reached, no file is written, and exactly one
\* line, the error line, is printed.
C1_FetchFailureAborts ==
    FailedRequests # {} =>
        /\ pc = "aborted"
        /\ FailedRequests = {Len(requests)}
        /\ primary_grouped_docs = <<>>
        /\ files = <<>>
        /\ printed = <<"Error">>

\* a run whose second page of documents failed
C1_Witness ==
    /\ pc = "aborted"
    /\ Len(requests) >= 4
    /\ Last(requests) = [resource |-> "documents", page |-> 2, status |-> 500]
    /\ documents # <<>>

RequestsOf(resource) == {i \in 1..Len(requests) : requests[i].resource = resource}

\* C2 as claimed: the first request a run sends is for the correspondents.
C2_CorrespondentsFetchedFirst ==
    requests # <<>> => requests[1].resource = "correspondents"

\* C2 as amended: the first request of a run is the one for the custom
\* field's labels; a request for correspondents is sent only after that one
\* succeeded, and every request for documents comes after every request
\* for correspondents.
C2_LabelsFetchedFirst ==
    /\ requests # <<>> => requests[1].resource = "custom_fields"
    /\ RequestsOf("custom_fields") \subseteq {1}
    /\ RequestsOf("correspondents") # {} => requests[1].status = HttpOk
    /\ \A i \in RequestsOf("documents") :
           /\ RequestsOf("correspondents") # {}
           /\ \A j \in RequestsOf("correspondents") : j < i

\* a run that has sent requests of all three kinds
C2_Witness ==
    /\ RequestsOf("documents") # {}
    /\ Cardinality(RequestsOf("correspondents")) = 2

-----------------------------------------------------------------------------
(* Pagination. *)

\* the records of the pages received so far, in page order
Received == Concat([i \in 1..Len(pages) |-> pages[i].results])

\* the fetch whose pages `pages` holds
Fetching == IF requests = <<>> THEN "none" ELSE Last(requests).resource

\* the running fetch has received its last page: one answered 200 whose
\* "next" is in `kinds`
EndedWith(kinds) ==
    /\ pages # <<>>
    /\ Last(pages).status = HttpOk
    /\ Last(pages).next.kind \in kinds

\* the pages of the running fetch were requested in chain order, each once
InChainOrder ==
    \A resource \in {"correspondents", "documents"} :
        LET sent == RequestsOf(resource)
        IN  /\ \A i \in sent : requests[i].page = Cardinality({j \in sent : j <= i})
            /\ \A i \in sent : \A j \in sent : i < j => \A k \in i..j : k \in sent
            /\ Fetching = resource =>
                   /\ Len(pages) = Cardinality(sent)
                   /\ \A k \in 1..(Len(pages) - 1) :
                          pages[k].status = HttpOk /\ pages[k].next = PageUrl(k + 1)

\* the map that holds, for every id among the records, the name of the last
\* record with that id
LastNameById(records) ==
    [id \in {records[i].id : i \in 1..Len(records)} |->
        records[Max({i \in 1..Len(records) : records[i].id = id})].name]

\* C3 as claimed: the pages are requested in chain order; a fetch stops
\* exactly at a page whose "next" is null or absent, and then returns the
\* concatenation of the results of all pages: fetch_documents the list,
\* fetch_correspondents a result that holds every record received.
C3_ReturnsConcatenation ==
    /\ InChainOrder
    /\ (Fetching = "documents" /\ EndedWith({"null", "absent"})) =>
           pc = "group" /\ documents = Received
    /\ (Fetching = "documents" /\ pc = "group") => EndedWith({"null", "absent"})
    /\ (Fetching = "correspondents" /\ EndedWith({"null", "absent"})) =>
           /\ pc = "fetch_documents"
           /\ \A i \in 1..Len(Received) :
                  dict_get(correspondents_map, Received[i].id, Unknown) = Received[i].name

\* C3 as amended: the pages are requested in chain order, one at a time.
\* A fetch stops at the first page whose "next" is null or the empty
\* string and then returns: fetch_documents the concatenation of the
\* results of all pages, fetch_correspondents the map from every id
\* received to the name of the last record with that id.  A page without
\* a "next" key ends the run with the error line, as a failed request does.
\* A page with a URL as "next" is followed by the request of that URL.
C3_Pagination ==
    /\ InChainOrder
    /\ (Fetching = "documents" /\ pc \in {"fetch_documents", "group", "aborted"}
           /\ pages # <<>> /\ Last(pages).status = HttpOk) =>
           documents = Received
    /\ (Fetching = "documents" /\ EndedWith({"null", "empty"})) =>
           pc \notin {"fetch_documents", "aborted"}
    /\ (Fetching = "documents" /\ pc \notin {"fetch_documents", "aborted"}) =>
           EndedWith({"null", "empty"})
    /\ (Fetching = "correspondents" /\ pages # <<>> /\ Last(pages).status = HttpOk) =>
           correspondents_map = LastNameById(Received)
    /\ (Fetching = "correspondents" /\ EndedWith({"null", "empty"})) =>
           pc = "fetch_documents" /\ next_url = PageUrl(1)
    /\ (Fetching = "correspondents" /\ pc = "fetch_documents") =>
           EndedWith({"null", "empty"})
    /\ (Fetching \in {"correspondents", "documents"} /\ EndedWith({"absent"})) =>
           pc = "aborted" /\ printed = <<"Error">> /\ files = <<>>
    /\ (Fetching \in {"correspondents", "documents"} /\ EndedWith({"url"})) =>
           pc = "fetch_" \o Fetching /\ next_url = Last(pages).next

\* fetch_documents has returned the records of two pages, and the last page
\* was empty
C3_Witness ==
    /\ pc = "group"
    /\ Len(pages) = 2
    /\ pages[1].results # <<>>
    /\ pages[2].results = <<>>
    /\ documents = pages[1].results

-----------------------------------------------------------------------------
(* The names of the files. *)

\* the columns of a row, by the header of its file
RowAsn(file, row) == IF file.filename.grouped_by = "ASN" THEN row[2] ELSE row[5]
RowCorrespondent(file, row) ==
    IF file.filename.grouped_by = "ASN" THEN row[3]
    ELSE IF file.filename.storage_box = <<>> THEN row[1] ELSE row[2]
RowDate(file, row) ==
    IF file.filename.grouped_by = "ASN" THEN row[5]
    ELSE IF file.filename.storage_box = <<>> THEN row[2] ELSE row[3]

RowAsns(file) == {RowAsn(file, file.rows[i]) : i \in 1..Len(file.rows)}

\* the ASNs of the fetched documents a file is about: all of them for the
\* file of export_correspondents_list, those of its storage box otherwise
FetchedAsns(file) ==
    {Received[i].archive_serial_number :
        i \in {j \in 1..Len(Received) :
                 \/ file.filename.storage_box = <<>>
                 \/ file.filename.storage_box =
                        <<group_key(Received[j], custom_field_id, storage_box_label_mapping)>>}}

\* C8: the bounds in the name of every file with at least one row are the
\* least and the greatest ASN of the rows of that file, which are the ASNs
\* of all fetched documents (report 1) or of the fetched documents of that
\* storage box (reports 2 and 3), whatever range was requested.
C8_FilenameBoundsAreActual ==
    \A f \in 1..Len(files) :
        files[f].rows # <<>> =>
            /\ files[f].filename.min_asn = Min(RowAsns(files[f]))
            /\ files[f].filename.max_asn = Max(RowAsns(files[f]))
            /\ RowAsns(files[f]) = FetchedAsns(files[f])
            /\ \A a \in FetchedAsns(files[f]) :
                   files[f].filename.min_asn <= a /\ a <= files[f].filename.max_asn

\* all three reports written for documents 2 and 10 of one storage box when
\* the range 5..8 was requested
C8_Witness ==
    /\ pc = "done"
    /\ asn_from = 5
    /\ Len(files) = 3
    /\ \A f \in 1..3 : files[f].filename.min_asn = 2 /\ files[f].filename.max_asn = 10

\* C9: when no document was fetched, the run writes exactly one file, the
\* one of export_correspondents_list, with the header row, no data row and
\* the requested asn_from and asn_to as the bounds in its name.
C9_EmptyFetchWritesReport1 ==
    (pc \in ExportStatements \ {"export_correspondents_list"} /\ Received = <<>>) =>
        files = << [filename |-> [storage_box |-> <<>>, grouped_by |-> "Correspondent",
                                  min_asn |-> asn_from, max_asn |-> asn_to],
                    header |-> <<"Correspondent", "Date", "Title", "StorageBox", "ASN">>,
                    rows |-> <<>>] >>

\* a finished run that fetched no document for the range 5..8
C9_Witness ==
    /\ pc = "done"
    /\ documents = <<>>
    /\ Len(files) = 1
    /\ asn_from = 5
    /\ asn_to = 8

-----------------------------------------------------------------------------
(* Grouping (checked under SpecReports). *)

Range(s) == {s[i] : i \in 1..Len(s)}

Count(s, x) == Cardinality({i \in 1..Len(s) : s[i] = x})

RECURSIVE SumOfSizes(_)
SumOfSizes(grouped) ==
    IF grouped = <<>> THEN 0 ELSE Len(Head(grouped).docs) + SumOfSizes(Tail(grouped))

\* the groups of `grouped` partition the list `docs`: the keys are distinct,
\* no group is empty, every document of the list is in the groups as often
\* as in the list and in one group only, and the sizes add up
Partitions(grouped, docs) ==
    /\ \A g, h \in 1..Len(grouped) : grouped[g].key = grouped[h].key => g = h
    /\ \A g \in 1..Len(grouped) : grouped[g].docs # <<>>
    /\ \A g \in 1..Len(grouped) : Range(grouped[g].docs) \subseteq Range(docs)
    /\ \A d \in Range(docs) :
           \E g \in 1..Len(grouped) :
               /\ Count(grouped[g].docs, d) = Count(docs, d)
               /\ \A h \in 1..Len(grouped) : h # g => Count(grouped[h].docs, d) = 0
    /\ SumOfSizes(grouped) = Len(docs)

Grouped == pc \in ExportStatements

\* C4: once the documents are grouped, the outer groups partition the
\* fetched documents, and within every outer group the correspondent groups
\* (those of the by-correspondent export and of group_within_custom_field)
\* partition the documents of that group; the sizes add up to the number
\* of documents.
C4_GroupingIsPartition ==
    Grouped =>
        /\ Partitions(primary_grouped_docs, documents)
        /\ \A g \in 1..Len(primary_grouped_docs) :
               /\ Partitions(correspondent_groups(primary_grouped_docs[g].docs,
                                                  correspondents_map),
                             primary_grouped_docs[g].docs)
               /\ Partitions(group_within_custom_field(primary_grouped_docs[g].docs,
                                                       correspondents_map, "Correspondent"),
                             primary_grouped_docs[g].docs)

\* two documents of one storage box and of two correspondents
C4_Witness ==
    /\ pc = "export_correspondents_list"
    /\ Len(documents) = 2
    /\ Len(primary_grouped_docs) = 1
    /\ Len(correspondent_groups(primary_grouped_docs[1].docs, correspondents_map)) = 2

\* C5: every document D of an outer group with key K: if D has an
\* assignment of the field, and v is the value of the first such
\* assignment, then K is the label of v when v has one and "Unknown" when
\* it has none, whatever the later assignments are; if D has no assignment
\* of the field, K is "Unknown".
C5_GroupKeyIsFirstAssignment ==
    Grouped =>
        \A g \in 1..Len(primary_grouped_docs) :
            \A d \in Range(primary_grouped_docs[g].docs) :
                LET K == primary_grouped_docs[g].key
                    cf == d.custom_fields
                    M == storage_box_label_mapping
                IN  /\ (\A i \in 1..Len(cf) : cf[i].field # custom_field_id) => K = Unknown
                    /\ \A i \in 1..Len(cf) :
                           (/\ cf[i].field = custom_field_id
                            /\ \A j \in 1..(i - 1) : cf[j].field # custom_field_id) =>
                               /\ cf[i].value \in DOMAIN M => K = M[cf[i].value]
                               /\ cf[i].value \notin DOMAIN M => K = Unknown

\* a document in the group "Unknown" whose first assignment of the field
\* has no label and whose later assignment of the field has one
C5_Witness ==
    /\ pc = "export_correspondents_list"
    /\ \E g \in 1..Len(primary_grouped_docs) :
           /\ primary_grouped_docs[g].key = Unknown
           /\ \E d \in Range(primary_grouped_docs[g].docs) :
                  /\ Len(d.custom_fields) = 3
                  /\ d.custom_fields[2].value \notin DOMAIN storage_box_label_mapping
                  /\ d.custom_fields[3].value \in DOMAIN storage_box_label_mapping

-----------------------------------------------------------------------------
(* The order of the rows (checked under SpecReports). *)

ByCorrespondentFiles == {f \in 1..Len(files) : files[f].filename.grouped_by = "Correspondent"}
ByAsnFiles == {f \in 1..Len(files) : files[f].filename.grouped_by = "ASN"}

\* (name1, date1) <= (name2, date2), the names lowercased
PairLeq(name1, date1, name2, date2) ==
    \/ StrLess(lower(name1), lower(name2))
    \/ lower(name1) = lower(name2) /\ StrLeq(date1, date2)

\* C6 as claimed: the rows of every by-correspondent file are in
\* non-decreasing order of (lowercased correspondent name, date).
C6_RowsOrderedByLoweredNameAndDate ==
    \A f \in ByCorrespondentFiles :
        \A i \in 1..(Len(files[f].rows) - 1) :
            PairLeq(RowCorrespondent(files[f], files[f].rows[i]),
                    RowDate(files[f], files[f].rows[i]),
                    RowCorrespondent(files[f], files[f].rows[i + 1]),
                    RowDate(files[f], files[f].rows[i + 1]))

\* C6 as amended: the rows of every by-correspondent file are in
\* non-decreasing order of the lowercased correspondent name; the rows of
\* one correspondent name are adjacent and in non-decreasing order of the
\* date.  (So they are ordered by the pair whenever no two different names
\* of the file are equal when lowercased.)
C6_RowsOrderedByNameThenDateWithinName ==
    \A f \in ByCorrespondentFiles :
        LET rows == files[f].rows
            name(i) == RowCorrespondent(files[f], rows[i])
            date(i) == RowDate(files[f], rows[i])
        IN  /\ \A i \in 1..Len(rows) : \A j \in (i + 1)..Len(rows) :
                   /\ StrLeq(lower(name(i)), lower(name(j)))
                   /\ name(i) = name(j) =>
                          /\ StrLeq(date(i), date(j))
                          /\ \A k \in i..j : name(k) = name(i)
            /\ (\A i, j \in 1..Len(rows) : lower(name(i)) = lower(name(j)) => name(i) = name(j))
                   => \A i \in 1..(Len(rows) - 1) :
                          PairLeq(name(i), date(i), name(i + 1), date(i + 1))

\* a file whose two rows are of the correspondents "a" and "Unknown", the
\* document of "Unknown" fetched first
C6_Witness ==
    /\ pc = "done"
    /\ Len(documents) = 2
    /\ corr_name_of(documents[1], correspondents_map) = Unknown
    /\ Len(files[1].rows) = 2
    /\ files[1].rows[1][1] = NameLowerA
    /\ files[1].rows[2][1] = Unknown

\* C7: the rows of every by-ASN file are in non-decreasing order of the ASN
\* as an integer.
C7_RowsOrderedByAsn ==
    \A f \in ByAsnFiles :
        \A i \in 1..(Len(files[f].rows) - 1) :
            RowAsn(files[f], files[f].rows[i]) <= RowAsn(files[f], files[f].rows[i + 1])

\* a by-ASN file with the rows of ASN 2 and 10 in this order, the document
\* of ASN 10 fetched first
C7_Witness ==
    /\ pc = "done"
    /\ Len(documents) = 2
    /\ documents[1].archive_serial_number = 10
    /\ \E f \in ByAsnFiles :
           /\ Len(files[f].rows) = 2
           /\ RowAsn(files[f], files[f].rows[1]) = 2
           /\ RowAsn(files[f], files[f].rows[2]) = 10

-----------------------------------------------------------------------------
(* Independence of the order of the fetched documents (SpecReports). *)

\* the files __main__ writes for the fetched list `docs`: the grouping and
\* the three exports, one after the other
ReportsOf(docs) ==
    LET grouped == group_documents_by_custom_field(docs, custom_field_id,
                                                   storage_box_label_mapping)
        marked == mark_storage_box(grouped)
    IN  <<export_correspondents_list(grouped, correspondents_map, asn_from, asn_to)>>
            \o export_storage_box_by_correspondent(marked, correspondents_map)
            \o export_storage_box_by_asn(marked, correspondents_map)

PermutationsOf(n) == {p \in [1..n -> 1..n] : \A i, j \in 1..n : p[i] = p[j] => i = j}

Permuted(docs, p) == [i \in 1..Len(docs) |-> docs[p[i]]]

\* the file of `others` with the name of `file`
SameName(others, file) == {g \in 1..Len(others) : others[g].filename = file.filename}

SameRowsAsBag(rows1, rows2) ==
    /\ Len(rows1) = Len(rows2)
    /\ \A r \in Range(rows1) \cup Range(rows2) : Count(rows1, r) = Count(rows2, r)

\* no two different rows of the file tie in the order the export sorts by
TieFree(file) ==
    \A i, j \in 1..Len(file.rows) :
        LET r1 == file.rows[i]
            r2 == file.rows[j]
        IN  IF file.filename.grouped_by = "ASN"
            THEN RowAsn(file, r1) = RowAsn(file, r2) => r1 = r2
            ELSE /\ lower(RowCorrespondent(file, r1)) = lower(RowCorrespondent(file, r2))
                        => RowCorrespondent(file, r1) = RowCorrespondent(file, r2)
                 /\ (/\ RowCorrespondent(file, r1) = RowCorrespondent(file, r2)
                     /\ RowDate(file, r1) = RowDate(file, r2)) => r1 = r2

====
